---- MODULE Spec2Model ----
(***************************************************************************)
(* django-easymodel: the I18n model decorator (easymodel/decorators.py)    *)
(* and the L10n admin decorator with its lazy_localized_list               *)
(* (easymodel/admin/decorators.py).                                        *)
(*                                                                         *)
(* Python semantics used below are those of the interpreter the module was *)
(* written for (map() returns a list; list.__init__ empties the list       *)
(* before it reads its argument; type.__call__ runs __init__ on whatever   *)
(* instance of the class __new__ returns).                                 *)
(***************************************************************************)
EXTENDS Integers, Sequences, FiniteSets, TLC

VARIABLES
    models,     \* model id -> model class (its _meta and localized_fields)
    classes,    \* admin class id -> admin class attributes (declared class first, synthesized descendants after)
    heap,       \* list objects that are shared by reference (the declared `fields` list; the lists handed to lazy_localized_list)
    decl,       \* the admin class as it was declared (never changes; what "unchanged" is measured against)
    last        \* the last operation with its inputs and its outcome

vars == <<models, classes, heap, decl, last>>

(***************************************************************************)
(* Bounds                                                                  *)
(***************************************************************************)
MaxClasses == 2      \* the declared admin class plus synthesized descendants
MaxSeqLen == 2       \* length of the plain sequences handed to lazy_localized_list
MaxHeap == 3         \* list objects alive in the lazy_localized_list specification

(***************************************************************************)
(* Python values                                                           *)
(***************************************************************************)
NoneVal == [none |-> TRUE, v |-> <<>>]
Some(s) == [none |-> FALSE, v |-> s]
ToSet(s) == {s[i] : i \in DOMAIN s}
Contains(s, x) == \E i \in DOMAIN s : s[i] = x
Count(s, x) == Cardinality({i \in DOMAIN s : s[i] = x})
Pop(s, i) == SubSeq(s, 1, i) \o SubSeq(s, i + 2, Len(s))      \* list.pop(i), i counted from 0
PyList(items) == [type |-> "list", items |-> items, localized_fieldnames |-> <<>>]
PyTuple(items) == [type |-> "tuple", items |-> items, localized_fieldnames |-> <<>>]

RECURSIVE Flatten(_)
Flatten(ss) == IF ss = <<>> THEN <<>> ELSE Head(ss) \o Flatten(Tail(ss))

RECURSIVE Orderings(_)
Orderings(S) ==
    IF S = {} THEN {<<>>}
    ELSE UNION {{<<x>> \o o : o \in Orderings(S \ {x})} : x \in S}

Upper == <<"A","B","C","D","E","F","G","H","I","J","K","L","M","N","O","P","Q","R","S","T","U","V","W","X","Y","Z">>
LowerCase == <<"a","b","c","d","e","f","g","h","i","j","k","l","m","n","o","p","q","r","s","t","u","v","w","x","y","z">>
LowerChar(c) ==
    IF \E i \in DOMAIN Upper : Upper[i] = c
    THEN LowerCase[CHOOSE i \in DOMAIN Upper : Upper[i] = c]
    ELSE c
lower(name) == [i \in DOMAIN name |-> LowerChar(name[i])]

(***************************************************************************)
(* easymodel.utils.languagecode                                            *)
(***************************************************************************)
get_all_language_codes == <<"en", "fr">>
get_real_fieldname(field, language) == field \o "_" \o language

(***************************************************************************)
(* Model classes                                                           *)
(***************************************************************************)
ModelDecls == <<
    [ name |-> <<"B","l","a">>, app_label |-> "blog",
      fields |-> <<"id", "title", "body">>, pk_index |-> 0,
      localizable |-> {<<>>, <<"title">>, <<"title", "body">>},
      permissions |-> [kind |-> "list", items |-> <<>>],
      hasLocalized |-> FALSE, localized_fields |-> <<>> ],
    [ name |-> <<"N","e","w","s">>, app_label |-> "press",
      fields |-> <<"title", "slug", "body">>, pk_index |-> 1,
      localizable |-> {<<>>, <<"title">>},
      permissions |-> [kind |-> "tuple", items |-> << <<<<"can_publish">>, "Can publish">> >>],
      hasLocalized |-> FALSE, localized_fields |-> <<>> ] >>

ModelIds == DOMAIN ModelDecls

pk_index(model) == model.pk_index
pk_name(model) == model.fields[model.pk_index + 1]
field_names(model) == model.fields

\* the argument tuples of I18n(*localized_fields) tried on model m
LocalizedChoices(m) == ModelDecls[m].localizable

added_fields_one_language(localized_fields) ==
    [i \in DOMAIN localized_fields |-> get_real_fieldname(localized_fields[i], get_all_language_codes[1])]

\* every physical name of the localized fields, field by field, language by language
RECURSIVE added_fields(_)
added_fields(localized_fields) ==
    IF localized_fields = <<>> THEN <<>>
    ELSE [i \in DOMAIN get_all_language_codes |->
             get_real_fieldname(Head(localized_fields), get_all_language_codes[i])]
         \o added_fields(Tail(localized_fields))

\* meta.localize_fields: one physical field per language, localized_fields recorded
localize_fields(model, localized_fields) ==
    [model EXCEPT !.fields = @ \o added_fields(localized_fields),
                  !.hasLocalized = TRUE,
                  !.localized_fields = localized_fields]

untranslated_codename(model) == <<"can_edit_untranslated_fields_of_">> \o lower(model.name)

I18n_perm(model) == << <<untranslated_codename(model), "Can edit untranslated fields">> >>

\* cls._meta.permissions += type(cls._meta.permissions)(perm)
add_permission(permissions, perm) == [permissions EXCEPT !.items = @ \o perm]

I18n_call(model, localized_fields) ==
    LET cls == localize_fields(model, localized_fields)
    IN [cls EXCEPT !.permissions = add_permission(cls.permissions, I18n_perm(cls))]

(***************************************************************************)
(* lazy_localized_list                                                     *)
(***************************************************************************)
\* __new__ hands back the sequence itself when it is already a
\* lazy_localized_list; __init__ then runs on the object __new__ returned:
\* it stores localized_fieldnames and calls list.__init__(self, sequence),
\* which empties self and then extends it from sequence (self again, and by
\* then empty, when the object was handed back).
lazy_localized_list(sequence, localized_fieldnames) ==
    LET same == sequence.type = "lazy"
    IN [same |-> same,
        obj  |-> [type |-> "lazy",
                  items |-> IF same THEN <<>> ELSE sequence.items,
                  localized_fieldnames |-> localized_fieldnames]]

(***************************************************************************)
(* Admin classes                                                           *)
(***************************************************************************)
ModelForm == [localised |-> FALSE, model |-> 0, exclude |-> <<>>]

\* django's ModelAdmin defaults, with no `model` attribute on the class
DefaultAdmin ==
    [ kind |-> "top", hasModel |-> FALSE, model |-> 0,
      fields |-> [type |-> "none", items |-> <<>>],
      exclude |-> NoneVal, readonly_fields |-> <<>>,
      list_display |-> PyTuple(<<"__str__">>), list_display_links |-> PyTuple(<<>>),
      list_editable |-> PyTuple(<<>>), search_fields |-> PyTuple(<<>>),
      actionsNone |-> FALSE, declared_fieldsets |-> <<>>,
      formset |-> "BaseInlineFormSet" ]

FieldsChoices ==
    { [type |-> "none", items |-> <<>>], [type |-> "list", items |-> <<>>],
      [type |-> "list", items |-> <<"title", "body">>],
      [type |-> "list", items |-> <<"slug", "title">>],
      [type |-> "list", items |-> <<"body">>],
      [type |-> "tuple", items |-> <<"title", "body">>] }

ListDisplayChoices ==
    { PyTuple(<<"__str__">>), PyTuple(<<>>), PyList(<<"title", "body">>),
      PyList(<<"action_checkbox", "title">>), PyTuple(<<"body", "action_checkbox">>),
      PyList(<<"action_checkbox">>),
      PyList(<<"action_checkbox", "title", "action_checkbox">>) }

\* the admin classes a developer declares
AdminDecls ==
    \* which model the class names, for each kind of admin class
    { [DefaultAdmin EXCEPT !.kind = x.k, !.hasModel = x.h, !.model = x.m,
                           !.formset = IF x.k = "generic" THEN "BaseGenericInlineFormSet" ELSE @] :
        x \in {y \in [k : {"top", "inline", "generic"}, h : BOOLEAN, m : {0} \cup ModelIds] :
                  /\ (y.k = "top" \/ y.h)          \* django's inline classes carry model = None
                  /\ (y.h \/ y.m = 0)} }
    \cup
    \* field and read-only declarations
    { [DefaultAdmin EXCEPT !.fields = f, !.readonly_fields = r] :
        f \in FieldsChoices, r \in {<<>>, <<"body">>} }
    \cup
    \* a declared exclusion list
    { [DefaultAdmin EXCEPT !.exclude = Some(<<"body">>), !.readonly_fields = <<"body">>] }
    \cup
    \* change-list declarations
    { [DefaultAdmin EXCEPT !.list_display = ld, !.list_display_links = x.ldl, !.actionsNone = x.an,
                           !.list_editable = PyList(<<"title">>), !.search_fields = PyTuple(<<"title">>)] :
        ld \in ListDisplayChoices,
        x \in { [ldl |-> PyTuple(<<>>), an |-> FALSE], [ldl |-> PyTuple(<<>>), an |-> TRUE],
                [ldl |-> PyList(<<"body">>), an |-> FALSE] } }
    \cup
    \* inline declarations
    { [DefaultAdmin EXCEPT !.kind = "inline", !.hasModel = TRUE, !.model = 1, !.fields = f,
                           !.declared_fieldsets = << <<"title">>, <<"body">> >>] :
        f \in {[type |-> "none", items |-> <<>>], [type |-> "list", items |-> <<"title", "body">>]} }
    \cup
    \* generic inline declarations
    { [DefaultAdmin EXCEPT !.kind = "generic", !.hasModel = TRUE, !.model = 1, !.fields = f,
                           !.readonly_fields = r, !.declared_fieldsets = fs,
                           !.formset = "BaseGenericInlineFormSet"] :
        f \in {[type |-> "none", items |-> <<>>], [type |-> "list", items |-> <<"title", "body">>]},
        r \in {<<>>, <<"body">>},
        fs \in {<<>>, << <<"title">>, <<"body">> >>} }
    \cup
    { [DefaultAdmin EXCEPT !.kind = "generic", !.hasModel = TRUE, !.model = 1,
                           !.formset = "CustomFormSet"] }

\* the class object built from a declaration; its `fields` list lives at heap[1]
AdminClass(d) ==
    [ base |-> 0, projected |-> FALSE,
      kind |-> d.kind, hasModel |-> d.hasModel, model |-> d.model, boundModel |-> 0,
      fieldsRef |-> IF d.fields.type = "none" THEN 0 ELSE 1,
      exclude |-> d.exclude, form |-> ModelForm, readonly_fields |-> d.readonly_fields,
      hasGRF |-> FALSE, permisson_name |-> <<>>, hasGF |-> FALSE,
      list_display |-> d.list_display, list_display_links |-> d.list_display_links,
      list_editable |-> d.list_editable, search_fields |-> d.search_fields,
      actionsNone |-> d.actionsNone, declared_fieldsets |-> d.declared_fieldsets,
      formset |-> d.formset ]

(***************************************************************************)
(* L10n                                                                    *)
(***************************************************************************)
compute_prohibited(fields, exclude, localized) ==
    (ToSet(fields) \ ToSet(exclude)) \ ToSet(localized)

\* forms.make_localised_form(model, form, exclude=...)
make_localised_form(model, form, exclude) ==
    [localised |-> TRUE, model |-> model, exclude |-> exclude]

permisson_name_as_spelled(model) ==
    <<model.app_label, ".", "can_edit_untranslated_fields_of_">> \o model.name

permisson_name(model) ==
    <<model.app_label, ".", "can_edit_untranslated_fields_of_">> \o lower(model.name)

descendant_without_model(cls, base, model) == [cls EXCEPT !.base = base]

\* type(obj.model.__name__ + cls.__name__, (cls,), {'model': obj.model})
descendant(cls, base, model) ==
    [cls EXCEPT !.base = base, !.hasModel = TRUE, !.model = model]

\* 'action_checkbox' is put in front unless it is there or actions is None
ensure_checkbox(list_display, actionsNone) ==
    IF ~Contains(list_display.items, "action_checkbox") /\ ~actionsNone
    THEN PyList(<<"action_checkbox">> \o list_display.items)
    ELSE list_display

first_link_any(list_display_links, list_display) ==
    IF list_display_links.items = <<>> /\ list_display.items # <<>>
    THEN PyList(<<list_display.items[1]>>)
    ELSE list_display_links

\* an empty list_display_links becomes the first name that is not the checkbox
first_link(list_display_links, list_display) ==
    LET cand == {i \in DOMAIN list_display.items : list_display.items[i] # "action_checkbox"}
    IN IF list_display_links.items = <<>> /\ cand # {}
       THEN PyList(<<list_display.items[CHOOSE i \in cand : \A j \in cand : i <= j]>>)
       ELSE list_display_links

\* the body of __call__ from "gather names of fields added by I18n" on
localize_admin(cls, m, model) ==
    LET added == added_fields(model.localized_fields)
        lf == model.localized_fields
        common == [cls EXCEPT !.projected = TRUE, !.boundModel = m,
                              !.exclude = Some(added),
                              !.form = make_localised_form(m, cls.form, added),
                              !.permisson_name = permisson_name(model),
                              !.hasGRF = TRUE]
        ld == ensure_checkbox(cls.list_display, cls.actionsNone)
        ldl == first_link(cls.list_display_links, ld)
    IN IF cls.kind = "top"
       THEN [common EXCEPT !.list_display_links = lazy_localized_list(ldl, lf).obj,
                           !.list_display = lazy_localized_list(ld, lf).obj,
                           !.list_editable = lazy_localized_list(cls.list_editable, lf).obj,
                           !.search_fields = lazy_localized_list(cls.search_fields, lf).obj]
       ELSE [common EXCEPT !.hasGF = TRUE]

Raise(error, cs) == [error |-> error, classes |-> cs, result |-> 0]

\* L10n.__call__(self, cls) with self.model = self_model (0 when unset)
L10n_call(self_model, c, cs) ==
    LET cls == cs[c]
        m == IF cls.hasModel THEN cls.model ELSE self_model
    IN IF ~cls.hasModel /\ self_model = 0 THEN Raise("error_no_model", cs)
       ELSE IF m = 0 THEN Raise("AttributeError", cs)                     \* None.localized_fields
       ELSE IF ~models[m].hasLocalized THEN Raise("AttributeError", cs)   \* model without localized_fields
       ELSE [error |-> "", classes |-> [cs EXCEPT ![c] = localize_admin(cls, m, models[m])], result |-> c]

\* L10n.__new__(typ, model_or_admin, cls): the first argument is a model
\* (isModel) or an admin class; cls = 0 stands for cls=None.  With a model
\* and no cls the L10n object itself comes back (result 0, obj_model set).
L10n_new(isModel, x, cls, cs) ==
    LET inline_syntax == cls # 0
        noModel == ~isModel /\ ~cs[x].hasModel
        obj_model == IF isModel THEN x ELSE cs[x].model
        cls2 == IF isModel THEN cls ELSE x
    IN IF noModel THEN Raise("error_no_model", cs) @@ [obj_model |-> 0]
       ELSE IF inline_syntax
       THEN IF obj_model = 0 THEN Raise("AttributeError", cs) @@ [obj_model |-> 0]   \* None.__name__
            ELSE LET r == L10n_call(obj_model, Len(cs) + 1,
                                    Append(cs, descendant(cs[cls2], cls2, obj_model)))
                 IN (IF r.error = "" THEN r ELSE Raise(r.error, cs)) @@ [obj_model |-> obj_model]
       ELSE IF cls2 # 0
       THEN L10n_call(obj_model, cls2, cs) @@ [obj_model |-> obj_model]
       ELSE [error |-> "", classes |-> cs, result |-> 0, obj_model |-> obj_model]

(***************************************************************************)
(* Requests                                                                *)
(***************************************************************************)
\* the permission I18n registered for model m, qualified by the app label
UntranslatedToken(m) ==
    <<models[m].app_label, ".">> \o models[m].permissions.items[Len(models[m].permissions.items)][1]

\* the principals: holding no permission, or the untranslated-fields
\* permission of one localized model
GrantChoices ==
    {{}} \cup {{UntranslatedToken(m)} : m \in {n \in ModelIds : models[n].hasLocalized}}

\* request.user.has_perm(name)
has_perm(grants, name) == name \in grants

SeqResult(s) == [isSet |-> FALSE, set |-> {}, seq |-> s]
SetResult(S) == [isSet |-> TRUE, set |-> S, seq |-> <<>>]
NoResult == SeqResult(<<>>)

\* the body of get_readonly_fields on an instance of class c, given the
\* outcome `permitted` of request.user.has_perm(permisson_name)
readonly_fields_for(c, permitted, hp) ==
    LET self == classes[c]
        model == models[self.boundModel]
        declared == self.fieldsRef # 0 /\ hp[self.fieldsRef].items # <<>>     \* self.fields is truthy
        fields == IF declared THEN hp[self.fieldsRef].items ELSE field_names(model)
        popped == Pop(fields, pk_index(model))
        prohibited_fields == compute_prohibited(popped, self.exclude.v, model.localized_fields)
    IN IF permitted
       THEN [error |-> "", ro |-> SeqResult(self.readonly_fields), heap |-> hp]
       ELSE IF declared /\ hp[self.fieldsRef].type = "tuple"
       THEN [error |-> "AttributeError", ro |-> NoResult, heap |-> hp]     \* a tuple has no pop
       ELSE IF pk_index(model) >= Len(fields)
       THEN [error |-> "IndexError", ro |-> NoResult, heap |-> hp]         \* pop index out of range
       ELSE [error |-> "",
             ro |-> SetResult(ToSet(self.readonly_fields) \cup prohibited_fields),
             \* self.fields is popped in place; the list made by map() is a fresh one
             heap |-> IF declared THEN [hp EXCEPT ![self.fieldsRef].items = popped] ELSE hp]

get_readonly_fields_unchecked(c, grants, hp) == readonly_fields_for(c, FALSE, hp)

\* get_readonly_fields(self, request, obj) for a principal holding `grants`
get_readonly_fields(c, grants, hp) ==
    readonly_fields_for(c, has_perm(grants, classes[c].permisson_name), hp)

NoKwargs == [hasExclude |-> FALSE, exclude |-> <<>>]
KwargsChoices == {NoKwargs, [hasExclude |-> TRUE, exclude |-> <<"title">>]}

NoFormset ==
    [built |-> FALSE, delegated |-> FALSE, fields |-> NoneVal, exclude |-> NoneVal,
     formset |-> "", kwargs |-> NoKwargs]

exclude_not_extended(exclude, ro, order) == IF exclude.none THEN <<>> ELSE exclude.v

\* exclude.extend(readonly): a sequence is appended in its order, a set in
\* the order `order` in which it happens to be iterated
extended_exclude(exclude, ro, order) ==
    (IF exclude.none THEN <<>> ELSE exclude.v) \o (IF ro.isSet THEN order ELSE ro.seq)

\* get_formset(self, request, obj, **kwargs) once get_readonly_fields returned ro
get_formset(c, ro, order, kwargs) ==
    LET self == classes[c]
        fields == IF self.declared_fieldsets # <<>> THEN Some(Flatten(self.declared_fieldsets)) ELSE NoneVal
        ext == extended_exclude(self.exclude, ro, order)
        exclude == IF ext = <<>> THEN NoneVal ELSE Some(ext)
    IN IF self.kind # "generic"
       THEN \* super(cls, self).get_formset(request, obj, **kwargs): only kwargs are handed on
            [NoFormset EXCEPT !.delegated = TRUE, !.kwargs = kwargs]
       ELSE [built |-> TRUE, delegated |-> FALSE, fields |-> fields,
             exclude |-> IF kwargs.hasExclude THEN Some(kwargs.exclude) ELSE exclude,
             formset |-> IF self.formset = "BaseGenericInlineFormSet"
                         THEN "LocalizableGenericInlineFormSet" ELSE self.formset,
             kwargs |-> kwargs]

(***************************************************************************)
(* State machine                                                           *)
(***************************************************************************)
NoOp ==
    [op |-> "none", style |-> "", arg |-> 0, cls |-> 0, result |-> 0, error |-> "",
     holds |-> FALSE, ro |-> NoResult, fs |-> NoFormset, before |-> <<>>, same |-> FALSE]

Init ==
    /\ models = ModelDecls
    /\ \E d \in AdminDecls :
         /\ decl = [cls |-> AdminClass(d), fields |-> d.fields]
         /\ classes = <<AdminClass(d)>>
         /\ heap = IF d.fields.type = "none" THEN <<>>
                   ELSE <<[type |-> d.fields.type, items |-> d.fields.items, localized_fieldnames |-> <<>>]>>
    /\ last = NoOp

\* @I18n(*lf) on model class m
I18n(m, lf) ==
    /\ ~models[m].hasLocalized
    /\ models' = [models EXCEPT ![m] = I18n_call(models[m], lf)]
    /\ last' = [NoOp EXCEPT !.op = "I18n", !.arg = m]
    /\ UNCHANGED <<classes, heap, decl>>

Unprojected(a) == a \in DOMAIN classes /\ ~classes[a].projected

L10nDone(style, m, a, r) ==
    /\ classes' = r.classes
    /\ last' = [NoOp EXCEPT !.op = "L10n", !.style = style, !.arg = m, !.cls = a,
                            !.result = r.result, !.error = r.error]
    /\ UNCHANGED <<models, heap, decl>>

\* @L10n(m) on admin class a:  L10n(m)(a)
L10nFactory(m, a) ==
    /\ Unprojected(a)
    /\ L10nDone("factory", m, a, L10n_call(L10n_new(TRUE, m, 0, classes).obj_model, a, classes))

\* L10n(m, a)
L10nDirect(m, a) ==
    /\ Unprojected(a)
    /\ Len(classes) < MaxClasses
    /\ L10nDone("direct", m, a, L10n_new(TRUE, m, a, classes))

\* L10n(x, a) with an admin class x as first argument
L10nDirectAdmin(x, a) ==
    /\ Unprojected(x) /\ Unprojected(a)
    /\ Len(classes) < MaxClasses
    /\ L10nDone("direct_admin", 0, x, L10n_new(FALSE, x, a, classes))

\* @L10n on admin class a:  L10n(a)
L10nBare(a) ==
    /\ Unprojected(a)
    /\ L10nDone("bare", 0, a, L10n_new(FALSE, a, 0, classes))

GetReadonlyFields(c, grants) ==
    /\ c \in DOMAIN classes /\ classes[c].hasGRF
    /\ LET r == get_readonly_fields(c, grants, heap)
       IN /\ heap' = r.heap
          /\ last' = [NoOp EXCEPT !.op = "get_readonly_fields", !.cls = c, !.error = r.error,
                                  !.holds = UntranslatedToken(classes[c].boundModel) \in grants,
                                  !.ro = r.ro, !.before = IF classes[c].fieldsRef = 0 THEN <<>>
                                                          ELSE heap[classes[c].fieldsRef].items]
    /\ UNCHANGED <<models, classes, decl>>

GetFormset(c, grants, kwargs) ==
    /\ c \in DOMAIN classes /\ classes[c].hasGF
    /\ LET r == get_readonly_fields(c, grants, heap)
       IN /\ heap' = r.heap
          /\ \E order \in Orderings(r.ro.set) :
               last' = [NoOp EXCEPT !.op = "get_formset", !.cls = c, !.error = r.error,
                                    !.holds = UntranslatedToken(classes[c].boundModel) \in grants,
                                    !.ro = r.ro,
                                    !.fs = IF r.error = "" THEN get_formset(c, r.ro, order, kwargs)
                                           ELSE NoFormset]
    /\ UNCHANGED <<models, classes, decl>>

Next ==
    \/ \E m \in ModelIds : \E lf \in LocalizedChoices(m) : I18n(m, lf)
    \/ \E m \in ModelIds : \E a \in DOMAIN classes : L10nFactory(m, a)
    \/ \E m \in ModelIds : \E a \in DOMAIN classes : L10nDirect(m, a)
    \/ \E x \in DOMAIN classes : \E a \in DOMAIN classes : L10nDirectAdmin(x, a)
    \/ \E a \in DOMAIN classes : L10nBare(a)
    \/ \E c \in DOMAIN classes : \E grants \in GrantChoices : GetReadonlyFields(c, grants)
    \/ \E c \in DOMAIN classes : \E grants \in GrantChoices : \E kw \in KwargsChoices :
          GetFormset(c, grants, kw)

Spec == Init /\ [][Next]_vars

(***************************************************************************)
(* lazy_localized_list on its own: a plain sequence is drawn, and the      *)
(* constructor is applied to whatever list object is at hand               *)
(***************************************************************************)
NameSeqs == UNION {[1..n -> {"title", "body", "slug"}] : n \in 0..MaxSeqLen}
LocalizedFieldnames == {<<>>, <<"title">>, <<"title", "body">>}

LazyInit ==
    /\ models = ModelDecls
    /\ classes = <<>>
    /\ decl = [cls |-> AdminClass(DefaultAdmin), fields |-> DefaultAdmin.fields]
    /\ \E s \in NameSeqs : heap \in {<<PyList(s)>>, <<PyTuple(s)>>}
    /\ last = NoOp

\* lazy_localized_list(heap[ref], lf)
Wrap(ref, lf) ==
    LET r == lazy_localized_list(heap[ref], lf)
        res == IF r.same THEN ref ELSE Len(heap) + 1
    IN /\ r.same \/ Len(heap) < MaxHeap
       /\ heap' = IF r.same THEN [heap EXCEPT ![ref] = r.obj] ELSE Append(heap, r.obj)
       /\ last' = [NoOp EXCEPT !.op = "lazy_localized_list", !.arg = ref, !.result = res,
                               !.same = (heap[ref].type = "lazy"), !.before = heap[ref].items]
       /\ UNCHANGED <<models, classes, decl>>

LazyNext == \E ref \in DOMAIN heap : \E lf \in LocalizedFieldnames : Wrap(ref, lf)

SpecLazy == LazyInit /\ [][LazyNext]_vars

(***************************************************************************)
(* Properties                                                              *)
(***************************************************************************)
\* the principal of the last request holds the untranslated-fields permission
Permitted == last.holds

Projected(style) == last.op = "L10n" /\ last.style = style /\ last.error = ""

\* the attributes L10n writes to
AdminAttrs(cls) ==
    <<cls.hasModel, cls.model, cls.exclude, cls.form, cls.hasGRF, cls.hasGF, cls.list_display,
      cls.list_display_links, cls.list_editable, cls.search_fields>>

ListSettings(cls) ==
    <<cls.list_display, cls.list_display_links, cls.list_editable, cls.search_fields>>

\* C1: without the permission, get_readonly_fields returns the declared
\* read-only fields together with every candidate (the declared `fields`, or
\* all model fields) other than the primary key that is neither excluded nor
\* localized; the primary key is never in the result.
C1_ReadonlyWithoutPermission ==
    (last.op = "get_readonly_fields" /\ ~Permitted) =>
        LET self == classes[last.cls]
            model == models[self.boundModel]
            candidates == IF last.before # <<>> THEN last.before ELSE field_names(model)
        IN /\ last.error = ""
           /\ last.ro.isSet
           /\ last.ro.set = ToSet(self.readonly_fields) \cup
                  (((ToSet(candidates) \ {pk_name(model)}) \ ToSet(self.exclude.v))
                      \ ToSet(model.localized_fields))
           /\ pk_name(model) \notin last.ro.set

\* C2: a get_readonly_fields or get_formset call changes neither the admin
\* classes, nor the declared `fields` list, nor the models, and a call that
\* follows a call on the same class with the same permission outcome returns
\* the same read-only fields.
C2_RequestsArePure ==
    [][ last'.op \in {"get_readonly_fields", "get_formset"} =>
          /\ heap' = heap /\ classes' = classes /\ models' = models
          /\ (/\ last.op \in {"get_readonly_fields", "get_formset"}
              /\ last.cls = last'.cls
              /\ last.holds = last'.holds)
             => (last'.ro = last.ro /\ last'.error = last.error) ]_vars

\* C3: lazy_localized_list applied to a lazy_localized_list returns that very
\* object, and the object still holds the names it held, in the same order.
C3_RewrapKeepsNames ==
    (last.op = "lazy_localized_list" /\ last.same) =>
        /\ last.result = last.arg
        /\ heap[last.result].items = last.before

\* C4 as claimed: L10n(M)(A) and L10n(M, A) both yield a class bound to M, and
\* when A names another model than M, the class is a new subclass of A and A
\* keeps its attributes.
C4_BothShapesSynthesize ==
    (last.op = "L10n" /\ last.style \in {"factory", "direct"} /\ last.error = "") =>
        /\ classes[last.result].boundModel = last.arg
        /\ (decl.cls.hasModel /\ decl.cls.model # last.arg) =>
              /\ last.result # last.cls
              /\ classes[last.result].base = last.cls
              /\ AdminAttrs(classes[last.cls]) = AdminAttrs(decl.cls)

\* C4 amended: L10n(M, A) yields a new subclass of A bound to M and leaves A's
\* attributes as declared; L10n(M)(A) returns A itself, projected for A's own
\* model when A has one and for M otherwise; classes projected for the same
\* model have the same exclude and list settings, synthesized or not.
C4_DirectSynthesizesFactoryInPlace ==
    /\ Projected("direct") =>
          /\ last.result # last.cls
          /\ classes[last.result].base = last.cls
          /\ classes[last.result].hasModel /\ classes[last.result].model = last.arg
          /\ classes[last.result].boundModel = last.arg
          /\ AdminAttrs(classes[last.cls]) = AdminAttrs(decl.cls)
    /\ Projected("factory") =>
          /\ last.result = last.cls
          /\ classes[last.result].boundModel =
                IF decl.cls.hasModel THEN decl.cls.model ELSE last.arg
    /\ \A c, d \in DOMAIN classes :
          (classes[c].projected /\ classes[d].projected
             /\ classes[c].boundModel = classes[d].boundModel) =>
                /\ classes[c].exclude = classes[d].exclude
                /\ ListSettings(classes[c]) = ListSettings(classes[d])

C4_Witness ==
    /\ Projected("factory")
    /\ Len(classes) >= 2
    /\ classes[2].base = 1 /\ classes[2].projected
    /\ classes[2].boundModel = classes[1].boundModel
    /\ decl.cls.hasModel /\ decl.cls.model # last.arg

\* C5: a projected admin class excludes exactly the physical names of the
\* model's localized fields in every language, one entry per field and
\* language, whatever it excluded before, and its form is built with that
\* same exclusion list.
C5_ExcludeIsExpansion ==
    \A c \in DOMAIN classes : classes[c].projected =>
        LET lf == models[classes[c].boundModel].localized_fields
            expansion == {get_real_fieldname(lf[i], get_all_language_codes[j]) :
                             i \in DOMAIN lf, j \in DOMAIN get_all_language_codes}
        IN /\ ~classes[c].exclude.none
           /\ ToSet(classes[c].exclude.v) = expansion
           /\ Len(classes[c].exclude.v) = Len(lf) * Len(get_all_language_codes)
           /\ classes[c].form.localised
           /\ classes[c].form.exclude = classes[c].exclude.v

C5_Witness ==
    /\ Projected("factory")
    /\ ~decl.cls.exclude.none /\ decl.cls.exclude.v # <<>>
    /\ models[classes[last.result].boundModel].localized_fields # <<>>

\* C6: with the permission, get_readonly_fields returns the declared
\* readonly_fields and nothing else.
C6_ReadonlyWithPermission ==
    (last.op = "get_readonly_fields" /\ Permitted) =>
        /\ last.error = ""
        /\ ~last.ro.isSet
        /\ last.ro.seq = classes[last.cls].readonly_fields

C6_Witness ==
    /\ last.op = "get_readonly_fields" /\ Permitted
    /\ classes[last.cls].readonly_fields # <<>>
    /\ compute_prohibited(Pop(field_names(models[classes[last.cls].boundModel]),
                              pk_index(models[classes[last.cls].boundModel])),
                          classes[last.cls].exclude.v,
                          models[classes[last.cls].boundModel].localized_fields) # {}

\* C7: without a passed model and without a model on the admin class (no
\* attribute, or None), L10n fails with the 'no model defined' error and
\* leaves the class as declared; a passed model is the one projected for.
C7_NoModelError ==
    last.op = "L10n" =>
        /\ (last.style = "bare" /\ (~decl.cls.hasModel \/ decl.cls.model = 0)) =>
                 /\ last.error = "error_no_model"
                 /\ classes[last.cls] = decl.cls
        /\ (last.style \in {"factory", "direct"} /\ models[last.arg].hasLocalized) =>
                 /\ last.error = ""
                 /\ classes[last.result].boundModel = last.arg

FirstNonCheckbox(items) ==
    LET cand == {i \in DOMAIN items : items[i] # "action_checkbox"}
    IN IF cand = {} THEN <<>> ELSE <<items[CHOOSE i \in cand : \A j \in cand : i <= j]>>

LinksAndOrder(pre, post) ==
    /\ pre.list_display_links.items = <<>> =>
          post.list_display_links.items = FirstNonCheckbox(post.list_display.items)
    /\ pre.list_display_links.items # <<>> =>
          post.list_display_links.items = pre.list_display_links.items
    /\ ~pre.actionsNone =>
          post.list_display.items =
             IF Contains(pre.list_display.items, "action_checkbox")
             THEN pre.list_display.items
             ELSE <<"action_checkbox">> \o pre.list_display.items

FormsetExclusion(self, ro, x) ==
    LET e == self.exclude.v
        extra == IF ro.isSet THEN ro.set ELSE ToSet(ro.seq)
        n == IF ro.isSet THEN Cardinality(ro.set) ELSE Len(ro.seq)
    IN IF e = <<>> /\ n = 0 THEN x.none
       ELSE /\ ~x.none
            /\ Len(x.v) = Len(e) + n
            /\ SubSeq(x.v, 1, Len(e)) = e
            /\ ToSet(SubSeq(x.v, Len(e) + 1, Len(x.v))) = extra
            /\ ~ro.isSet => SubSeq(x.v, Len(e) + 1, Len(x.v)) = ro.seq

FormsetFields(self, f) ==
    IF self.declared_fieldsets = <<>> THEN f.none
    ELSE ~f.none /\ f.v = Flatten(self.declared_fieldsets)

====
